---- MODULE Spec2Model ----
(***************************************************************************)
(* Smart-Study-Scheduler: the weekly schedule model (Mongoose schema and   *)
(* methods) and the /api/schedules routes, as a state machine.             *)
(*                                                                         *)
(* A time string is the record [dg, h, m]: an hour written with dg digits  *)
(* (1 or 2), a colon, and a minute written with two digits, so "9:05" is   *)
(* [dg |-> 1, h |-> 9, m |-> 5] and "09:05" is [dg |-> 2, h |-> 9, m |-> 5].*)
(* Instants are milliseconds after local midnight; the server's zone is    *)
(* taken to have no clock shift on the days involved.                      *)
(***************************************************************************)
EXTENDS Integers, Sequences, FiniteSets, TLC

VARIABLES schedules, nextOid, last, fnBlocks, fnOut, calls, before, versions,
          deleted, sessions, stats, sesCalls, now, account, lastPw, tasks,
          lastTask

\* the study sessions, the users' study statistics, the study-session requests
\* in flight, and the clock
sesVars == <<sessions, stats, sesCalls, now>>

\* the stored passwords and the last change-password request
accVars == <<account, lastPw>>

\* the tasks and the last task request
taskVars == <<tasks, lastTask>>

vars == <<schedules, nextOid, last, fnBlocks, fnOut, calls, before, versions,
          deleted, sesVars, accVars, taskVars>>

(***************************************************************************)
(* Bounds of the model.                                                    *)
(***************************************************************************)
\* longest timeBlocks list a request carries or a schedule holds
MaxBlocks == 2
\* longest list the conflict functions are evaluated on
MaxLen == 3
\* last reading of the clock
MaxTime == 2
\* ObjectIds handed out to schedules and their blocks
MaxOid == 3

Absent == "absent"
NaN == -1

SeqsUpTo(S, n) == UNION {[1..k -> S] : k \in 0..n}

(***************************************************************************)
(* Time strings.                                                           *)
(***************************************************************************)
\* h:mm with the hour written without a leading zero
T(h, m) == [dg |-> IF h >= 10 THEN 2 ELSE 1, h |-> h, m |-> m]

\* hh:mm with a two-digit hour
T0(h, m) == [dg |-> 2, h |-> h, m |-> m]

\* /^([0-1]?[0-9]|2[0-3]):[0-5][0-9]$/
MatchesHHMM(t) ==
    /\ t.m <= 59
    /\ \/ t.dg = 1 /\ t.h <= 9
       \/ t.dg = 2 /\ t.h <= 23

\* parseTime: split(':').map(Number), then setHours(hours, minutes, 0, 0) on today
parseTime(t) == (t.h * 60 + t.m) * 60000

\* new Date(`2000-01-01T${t}:00`).getTime(): V8 reads a string that starts as an
\* ISO date and has a T as an ISO date-time, whose hour has exactly two digits;
\* anything else is an Invalid Date, whose time value is NaN.
DateTime(t) ==
    IF t.dg = 2 /\ t.h <= 23 /\ t.m <= 59
    THEN (t.h * 60 + t.m) * 60000
    ELSE NaN

\* the comparator's result as Array.prototype.sort reads it (NaN counts as 0)
SortOrder(x, y) == IF x = NaN \/ y = NaN THEN 0 ELSE x - y

\* a > b on two time values (false when either is NaN)
Later(x, y) == x # NaN /\ y # NaN /\ x > y

(***************************************************************************)
(* Array.prototype.sort on an array shorter than 64 elements (V8): the     *)
(* leading run is found and reversed when strictly descending, the rest is *)
(* inserted by binary insertion.  keys[i] is the comparator's key of the   *)
(* i-th element; the result is the sequence of original indices in sorted  *)
(* order.                                                                  *)
(***************************************************************************)
RECURSIVE RunEnd(_, _, _)
RunEnd(keys, idx, desc) ==
    IF idx > Len(keys) THEN idx - 1
    ELSE LET order == SortOrder(keys[idx], keys[idx - 1])
         IN  IF (desc /\ order >= 0) \/ (~desc /\ order < 0)
             THEN idx - 1
             ELSE RunEnd(keys, idx + 1, desc)

RECURSIVE InsertAt(_, _, _, _, _)
InsertAt(keys, perm, pivot, left, right) ==
    IF left >= right THEN left
    ELSE LET mid == left + ((right - left) \div 2)
             order == SortOrder(keys[pivot], keys[perm[mid]])
         IN  IF order < 0
             THEN InsertAt(keys, perm, pivot, left, mid)
             ELSE InsertAt(keys, perm, pivot, mid + 1, right)

RECURSIVE BinaryInsertionSort(_, _, _)
BinaryInsertionSort(keys, perm, start) ==
    IF start > Len(keys) THEN perm
    ELSE LET pos == InsertAt(keys, perm, start, 1, start)
             moved == [i \in 1..Len(perm) |->
                          IF i < pos \/ i > start THEN perm[i]
                          ELSE IF i = pos THEN start
                          ELSE perm[i - 1]]
         IN  BinaryInsertionSort(keys, moved, start + 1)

SortPerm(keys) ==
    LET n == Len(keys)
        id == [i \in 1..n |-> i]
    IN  IF n < 2 THEN id
        ELSE LET desc == SortOrder(keys[2], keys[1]) < 0
                 run == RunEnd(keys, 3, desc)
                 head == IF desc
                         THEN [i \in 1..n |-> IF i <= run THEN run + 1 - i ELSE i]
                         ELSE id
             IN  BinaryInsertionSort(keys, head, run + 1)

SortBy(blocks, keys) ==
    LET p == SortPerm(keys) IN [i \in 1..Len(blocks) |-> blocks[p[i]]]

(***************************************************************************)
(* Grouping by dayOfWeek: blocksByDay[day] keeps the blocks of one day in  *)
(* the order of the list; for..in visits integer keys in ascending order.  *)
(***************************************************************************)
\* grouping that puts every block under every day
SelectAnyDay(blocks, day) == blocks

RECURSIVE SelectDay(_, _)
SelectDay(blocks, day) ==
    IF blocks = <<>> THEN <<>>
    ELSE IF Head(blocks).dayOfWeek = day
         THEN <<Head(blocks)>> \o SelectDay(Tail(blocks), day)
         ELSE SelectDay(Tail(blocks), day)

DaysOf(blocks) == {blocks[i].dayOfWeek : i \in DOMAIN blocks}

\* the least index i with sorted[i].endTime > sorted[i+1].startTime, or 0
FirstClash(ends, starts) ==
    LET hits == {i \in 1..(Len(ends) - 1) : Later(ends[i], starts[i + 1])}
    IN  IF hits = {} THEN 0
        ELSE CHOOSE i \in hits : \A j \in hits : i <= j

\* the overlap check of POST / and PUT /:id on one day's blocks
routeDayConflict(group) ==
    LET sorted == SortBy(group, [i \in 1..Len(group) |-> DateTime(group[i].startTime)])
        i == FirstClash([k \in 1..Len(sorted) |-> DateTime(sorted[k].endTime)],
                        [k \in 1..Len(sorted) |-> DateTime(sorted[k].startTime)])
    IN  IF i = 0 THEN <<>> ELSE <<sorted[i], sorted[i + 1]>>

\* the response of the overlap check: no conflict, or the day and the pair
NoConflict == [found |-> FALSE]

routeConflict(blocks) ==
    LET bad == {d \in DaysOf(blocks) : routeDayConflict(SelectDay(blocks, d)) # <<>>}
    IN  IF bad = {} THEN NoConflict
        ELSE LET day == CHOOSE d \in bad : \A e \in bad : d <= e
             IN  [found |-> TRUE, day |-> day,
                  conflictingBlocks |-> routeDayConflict(SelectDay(blocks, day))]

\* the hasConflicts virtual of the schedule schema
hasConflictsDay(group) ==
    LET sorted == SortBy(group, [i \in 1..Len(group) |-> parseTime(group[i].startTime)])
    IN  FirstClash([k \in 1..Len(sorted) |-> parseTime(sorted[k].endTime)],
                   [k \in 1..Len(sorted) |-> parseTime(sorted[k].startTime)]) # 0

hasConflicts(blocks) ==
    \E d \in DaysOf(blocks) : hasConflictsDay(SelectDay(blocks, d))

(***************************************************************************)
(* Requests.  A block of a request body carries dayOfWeek, startTime,      *)
(* endTime, subject and, optionally, type and priority.                    *)
(***************************************************************************)
Users == {"u1", "u2"}

Types == {"study", "break", "exercise", "other"}

Priorities == {"low", "medium", "high"}

Blk(d, s, e) ==
    [dayOfWeek |-> d, startTime |-> s, endTime |-> e, subject |-> "Math",
     type |-> Absent, priority |-> Absent]

bA == Blk(1, T0(9, 0), T0(10, 0))

bB == Blk(1, T0(9, 30), T0(10, 30))

bC == Blk(2, T0(9, 0), T0(10, 0))

bZ == Blk(1, T0(9, 0), T0(9, 0))

\* "9:30" to "10:30": the pattern admits an hour of one digit
bU == Blk(1, T(9, 30), T0(10, 30))

bBadDay == Blk(7, T0(9, 0), T0(10, 0))

\* a type and a priority outside the schema's enums
bNap == [Blk(1, T0(9, 0), T0(10, 0)) EXCEPT !.type = "nap"]

bUrgent == [Blk(1, T0(9, 0), T0(10, 0)) EXCEPT !.priority = "urgent"]

\* the timeBlocks lists requests carry
ReqLists ==
    {l \in {<<>>, <<bA>>, <<bBadDay>>, <<bNap>>, <<bUrgent>>,
            <<bA, bB>>, <<bA, bC>>, <<bZ, bA>>, <<bA, bZ>>, <<bA, bU>>, <<bU, bA>>,
            <<bA, bC, bB>>} : Len(l) <= MaxBlocks}

\* the timeBlocks lists PUT /:id bodies carry
UpdateLists ==
    {l \in {<<>>, <<bC>>, <<bBadDay>>, <<bNap>>, <<bUrgent>>,
            <<bA, bB>>, <<bA, bC>>, <<bA, bZ>>,
            <<bC, bA, bB>>} : Len(l) <= MaxBlocks}

\* the single blocks PUT /:id/time-blocks carries
AddBlocks == {bA, bB, bC, bZ, bBadDay, bNap, bUrgent}

\* an optional field of a request body: None when the body lacks it
None == <<>>

Some(v) == <<v>>

(***************************************************************************)
(* Calendar dates are day numbers: day 1 is 2024-01-01, a Monday, so the   *)
(* weekday of day d (0 = Sunday) is d modulo 7.                            *)
(***************************************************************************)
Frequencies == {"daily", "weekly", "monthly"}

Actions == {"skip", "modify"}

\* the recurring object of a request body; every sub-field is optional
Rule(isRecurring, frequency, startDate, endDate) ==
    [isRecurring |-> isRecurring, frequency |-> frequency, startDate |-> startDate,
     endDate |-> endDate, daysOfWeek |-> None]

\* weekly from 2024-01-01, no end
rcWeekly == Rule(Some(TRUE), Some("weekly"), Some(1), None)

\* the same rule with an end date, 2024-01-15
rcUntil == Rule(Some(TRUE), Some("weekly"), Some(1), Some(15))

\* only the end date: what a client sends to end a schedule on 2024-01-15
rcEndOnly == Rule(None, None, None, Some(15))

\* the start date alone
rcStartOnly == Rule(None, None, Some(1), None)

\* casting a body's recurring object to the schema's nested path: the defaults
\* of isRecurring, frequency and daysOfWeek stand in for what is missing
CastRecurring(r) ==
    [isRecurring |-> IF r.isRecurring = None THEN FALSE ELSE r.isRecurring[1],
     frequency |-> IF r.frequency = None THEN "weekly" ELSE r.frequency[1],
     startDate |-> r.startDate,
     endDate |-> r.endDate,
     daysOfWeek |-> IF r.daysOfWeek = None THEN {} ELSE r.daysOfWeek[1]]

\* an entry of exceptions in a request body
Exc(date, action, blocks) ==
    [date |-> date, reason |-> "exam", action |-> action, modifiedTimeBlocks |-> blocks]

\* the replacement block 09:30-11:00 "Makeup"
mkBlock == [startTime |-> T0(9, 30), endTime |-> T0(11, 0), subject |-> "Makeup",
            type |-> "study"]

exSkip == Exc(8, "skip", <<>>)

exModify == Exc(8, "modify", <<mkBlock>>)

\* a modify exception that carries no replacement block
exModifyNone == Exc(8, "modify", <<>>)

\* casting an entry of exceptions: action defaults to skip
CastException(e) == [e EXCEPT !.action = IF @ = Absent THEN "skip" ELSE @]

CastExceptions(list) == [i \in 1..Len(list) |-> CastException(list[i])]

\* the schema's validators on one stored exception
SchemaValidException(e) ==
    /\ e.reason # ""
    /\ e.action \in Actions
    /\ \A i \in DOMAIN e.modifiedTimeBlocks :
          /\ MatchesHHMM(e.modifiedTimeBlocks[i].startTime)
          /\ MatchesHHMM(e.modifiedTimeBlocks[i].endTime)
          /\ e.modifiedTimeBlocks[i].type \in Types

\* express-validator on one block: dayOfWeek, startTime, endTime, subject
WireValidBlock(b) ==
    /\ b.dayOfWeek \in 0..6
    /\ MatchesHHMM(b.startTime)
    /\ MatchesHHMM(b.endTime)
    /\ b.subject # ""

\* the validators of a block schema that declares type and priority without enum
SchemaValidBlockNoEnum(b) ==
    /\ b.dayOfWeek \in 0..6
    /\ MatchesHHMM(b.startTime)
    /\ MatchesHHMM(b.endTime)
    /\ b.subject # ""

\* the schema's validators on one stored block
SchemaValidBlock(b) ==
    /\ b.dayOfWeek \in 0..6
    /\ MatchesHHMM(b.startTime)
    /\ MatchesHHMM(b.endTime)
    /\ b.subject # ""
    /\ b.type \in Types
    /\ b.priority \in Priorities

\* casting a body block to a timeBlocks subdocument: a fresh _id and the defaults
CastBlock(b, oid) ==
    [_id |-> oid, dayOfWeek |-> b.dayOfWeek, startTime |-> b.startTime,
     endTime |-> b.endTime, subject |-> b.subject,
     type |-> IF b.type = Absent THEN "study" ELSE b.type,
     priority |-> IF b.priority = Absent THEN "medium" ELSE b.priority]

CastBlocks(blocks, firstOid) ==
    [i \in 1..Len(blocks) |-> CastBlock(blocks[i], firstOid + i - 1)]

(***************************************************************************)
(* The store: schedules maps the _id of every stored schedule to its       *)
(* document.  nextOid is the next ObjectId; last is the last request, its  *)
(* response, and the store as it was before the request.                   *)
(***************************************************************************)
\* the ids a request names: those of the stored schedules, and one of no schedule
RequestIds == (DOMAIN schedules) \cup {nextOid}

\* the block ids a removal names: every ObjectId issued so far, and one never issued
RequestBlockIds == 1..nextOid

\* a POST / body
CreateBody(name, timeBlocks, description, recurring) ==
    [name |-> name, timeBlocks |-> timeBlocks, description |-> description,
     recurring |-> recurring]

CreateBodies ==
    {CreateBody("Plan", l, None, Some(rcWeekly)) : l \in ReqLists}
    \cup {CreateBody("", <<bA>>, None, Some(rcWeekly)),
          CreateBody("Plan", <<bA>>, None, None)}

\* the PUT /:id body that carries no field
NoFields ==
    [userId |-> None, name |-> None, description |-> None, isActive |-> None,
     timeBlocks |-> None, recurring |-> None, exceptions |-> None]

\* PUT /:id bodies: any subset of the fields; userId is a path of the schema too
UpdateBodies ==
    {[NoFields EXCEPT !.timeBlocks = Some(l)] : l \in UpdateLists}
    \cup
    {[NoFields EXCEPT !.userId = Some("u2")],
     [NoFields EXCEPT !.name = Some("Finals")],
     [NoFields EXCEPT !.name = Some("")],
     [NoFields EXCEPT !.isActive = Some(FALSE)],
     [NoFields EXCEPT !.userId = Some("u2"), !.name = Some("Finals"),
                      !.isActive = Some(FALSE), !.timeBlocks = Some(<<bA, bB>>)]}

Remove(f, id) == [i \in (DOMAIN f) \ {id} |-> f[i]]

Put(f, id, doc) == [i \in (DOMAIN f) \cup {id} |-> IF i = id THEN doc ELSE f[i]]

\* findOne with the userId condition left out of the filter
findById(store, id, user) ==
    IF id \in DOMAIN store THEN Some(store[id]) ELSE None

\* Schedule.findOne({ _id, userId }): the document, or None
findOne(store, id, user) ==
    IF id \in DOMAIN store /\ store[id].userId = user THEN Some(store[id]) ELSE None

\* the validators of the paths a document holds
PathsValid(doc) ==
    /\ doc.name # ""
    /\ \A i \in DOMAIN doc.timeBlocks : SchemaValidBlock(doc.timeBlocks[i])
    /\ doc.recurring.frequency \in Frequencies
    /\ doc.recurring.daysOfWeek \subseteq 0..6
    /\ \A i \in DOMAIN doc.exceptions : SchemaValidException(doc.exceptions[i])

\* document validation on save: the validators of every path, and of the required
\* paths the document lacks (recurring.startDate is required)
SchemaValid(doc) ==
    /\ PathsValid(doc)
    /\ doc.recurring.startDate # None

Error(msg) == [message |-> msg]

Result(status, out, store, oid) ==
    [status |-> status, out |-> out, schedules |-> store, nextOid |-> oid]

\* POST /api/schedules
createSchedule(store, oid, user, body) ==
    IF \/ body.name = ""
       \/ Len(body.timeBlocks) < 1
       \/ \E i \in DOMAIN body.timeBlocks : ~WireValidBlock(body.timeBlocks[i])
       \/ body.recurring = None
       \/ body.recurring[1].startDate = None
    THEN Result(400, Error("validation"), store, oid)
    ELSE IF routeConflict(body.timeBlocks).found
    THEN Result(400, routeConflict(body.timeBlocks), store, oid)
    ELSE LET doc == [_id |-> oid, userId |-> user, name |-> body.name,
                     description |-> body.description,
                     isActive |-> TRUE,
                     timeBlocks |-> CastBlocks(body.timeBlocks, oid + 1),
                     recurring |-> CastRecurring(body.recurring[1]),
                     exceptions |-> <<>>]
         IN  IF ~SchemaValid(doc)
             THEN Result(500, Error("Server error"), store, oid)
             ELSE Result(201, doc, Put(store, oid, doc),
                         oid + 1 + Len(body.timeBlocks))

\* { $set: req.body } applied to a document: every path the body names takes the
\* body's value, whole; a recurring object replaces the stored one, sub-fields
\* and all
SetFields(doc, body, oid) ==
    [_id |-> doc._id,
     userId |-> IF body.userId = None THEN doc.userId ELSE body.userId[1],
     name |-> IF body.name = None THEN doc.name ELSE body.name[1],
     description |-> IF body.description = None THEN doc.description
                     ELSE body.description,
     isActive |-> IF body.isActive = None THEN doc.isActive ELSE body.isActive[1],
     timeBlocks |-> IF body.timeBlocks = None THEN doc.timeBlocks
                    ELSE CastBlocks(body.timeBlocks[1], oid),
     recurring |-> IF body.recurring = None THEN doc.recurring
                   ELSE CastRecurring(body.recurring[1]),
     exceptions |-> IF body.exceptions = None THEN doc.exceptions
                    ELSE CastExceptions(body.exceptions[1])]

\* an update that sets the other fields before it checks the timeBlocks for overlap
updateScheduleEager(store, oid, user, id, body) ==
    IF \/ body.name = Some("")
       \/ /\ body.timeBlocks # None
          /\ \/ Len(body.timeBlocks[1]) < 1
             \/ \E i \in DOMAIN body.timeBlocks[1] :
                    ~WireValidBlock(body.timeBlocks[1][i])
    THEN Result(400, Error("validation"), store, oid)
    ELSE IF findOne(store, id, user) = None
    THEN Result(404, Error("Schedule not found"), store, oid)
    ELSE IF body.timeBlocks # None /\ routeConflict(body.timeBlocks[1]).found
    THEN Result(400, routeConflict(body.timeBlocks[1]),
                Put(store, id, SetFields(store[id],
                                         [body EXCEPT !.timeBlocks = None], oid)),
                oid)
    ELSE LET doc == SetFields(store[id], body, oid)
         IN  IF ~PathsValid(doc)
             THEN Result(500, Error("Server error"), store, oid)
             ELSE Result(200, doc, Put(store, id, doc),
                         IF body.timeBlocks = None THEN oid
                         ELSE oid + Len(body.timeBlocks[1]))

\* an update that checks and stores the new timeBlocks appended to the stored ones
updateScheduleMerge(store, oid, user, id, body) ==
    IF \/ body.name = Some("")
       \/ /\ body.timeBlocks # None
          /\ \/ Len(body.timeBlocks[1]) < 1
             \/ \E i \in DOMAIN body.timeBlocks[1] :
                    ~WireValidBlock(body.timeBlocks[1][i])
    THEN Result(400, Error("validation"), store, oid)
    ELSE IF findOne(store, id, user) = None
    THEN Result(404, Error("Schedule not found"), store, oid)
    ELSE LET merged == IF body.timeBlocks = None THEN <<>>
                       ELSE store[id].timeBlocks \o body.timeBlocks[1]
         IN  IF body.timeBlocks # None /\ routeConflict(merged).found
             THEN Result(400, routeConflict(merged), store, oid)
             ELSE LET set == SetFields(store[id], body, oid)
                      doc == IF body.timeBlocks = None THEN set
                             ELSE [set EXCEPT !.timeBlocks =
                                       store[id].timeBlocks \o @]
                  IN  IF ~PathsValid(doc)
                      THEN Result(500, Error("Server error"), store, oid)
                      ELSE Result(200, doc, Put(store, id, doc),
                                  IF body.timeBlocks = None THEN oid
                                  ELSE oid + Len(body.timeBlocks[1]))

\* PUT /api/schedules/:id.  findByIdAndUpdate with runValidators runs the
\* validators of the paths the update names; a required path the update leaves
\* out (recurring.startDate under a replaced recurring) is not looked at.
updateSchedule(store, oid, user, id, body) ==
    IF \/ body.name = Some("")
       \/ /\ body.timeBlocks # None
          /\ \/ Len(body.timeBlocks[1]) < 1
             \/ \E i \in DOMAIN body.timeBlocks[1] :
                    ~WireValidBlock(body.timeBlocks[1][i])
    THEN Result(400, Error("validation"), store, oid)
    ELSE IF findOne(store, id, user) = None
    THEN Result(404, Error("Schedule not found"), store, oid)
    ELSE IF body.timeBlocks # None /\ routeConflict(body.timeBlocks[1]).found
    THEN Result(400, routeConflict(body.timeBlocks[1]), store, oid)
    ELSE LET doc == SetFields(store[id], body, oid)
         IN  IF ~PathsValid(doc)
             THEN Result(500, Error("Server error"), store, oid)
             ELSE Result(200, doc, Put(store, id, doc),
                         IF body.timeBlocks = None THEN oid
                         ELSE oid + Len(body.timeBlocks[1]))

\* scheduleSchema.methods.addTimeBlock: push, then save
addTimeBlock(doc, timeBlock, oid) ==
    [doc EXCEPT !.timeBlocks = Append(@, CastBlock(timeBlock, oid))]

\* PUT /api/schedules/:id/time-blocks
addBlock(store, oid, user, id, block) ==
    IF \/ ~WireValidBlock(block)
       \/ block.type \notin Types \cup {Absent}
       \/ block.priority \notin Priorities \cup {Absent}
    THEN Result(400, Error("validation"), store, oid)
    ELSE IF findOne(store, id, user) = None
    THEN Result(404, Error("Schedule not found"), store, oid)
    ELSE LET doc == addTimeBlock(store[id], block, oid)
         IN  IF ~SchemaValid(doc)
             THEN Result(500, Error("Server error"), store, oid)
             ELSE Result(200, doc, Put(store, id, doc), oid + 1)

\* removal by timeBlocks.splice(findIndex(...), 1): index -1 drops the last block
removeTimeBlockSplice(doc, blockId) ==
    IF \E i \in DOMAIN doc.timeBlocks : doc.timeBlocks[i]._id = blockId
    THEN [doc EXCEPT !.timeBlocks = SelectSeq(@, LAMBDA b : b._id # blockId)]
    ELSE [doc EXCEPT !.timeBlocks = SubSeq(@, 1, Len(@) - 1)]

\* scheduleSchema.methods.removeTimeBlock: filter on _id, then save
removeTimeBlock(doc, blockId) ==
    [doc EXCEPT !.timeBlocks = SelectSeq(@, LAMBDA b : b._id # blockId)]

\* DELETE /api/schedules/:id/time-blocks/:blockId
removeBlock(store, oid, user, id, blockId) ==
    IF findOne(store, id, user) = None
    THEN Result(404, Error("Schedule not found"), store, oid)
    ELSE LET doc == removeTimeBlock(store[id], blockId)
         IN  IF ~SchemaValid(doc)
             THEN Result(500, Error("Server error"), store, oid)
             ELSE Result(200, doc, Put(store, id, doc), oid)

\* scheduleSchema.methods.toggleActive: flip, then save
toggleActive(doc) == [doc EXCEPT !.isActive = ~@]

\* PUT /api/schedules/:id/toggle
toggleSchedule(store, oid, user, id) ==
    IF findOne(store, id, user) = None
    THEN Result(404, Error("Schedule not found"), store, oid)
    ELSE LET doc == toggleActive(store[id])
         IN  IF ~SchemaValid(doc)
             THEN Result(500, Error("Server error"), store, oid)
             ELSE Result(200, doc, Put(store, id, doc), oid)

\* a delete that removes every schedule of the caller
deleteScheduleOfUser(store, oid, user, id) ==
    IF findOne(store, id, user) = None
    THEN Result(404, Error("Schedule not found"), store, oid)
    ELSE Result(200, Error("Schedule deleted successfully"),
                [i \in {j \in DOMAIN store : store[j].userId # user} |-> store[i]],
                oid)

\* DELETE /api/schedules/:id
deleteSchedule(store, oid, user, id) ==
    IF findOne(store, id, user) = None
    THEN Result(404, Error("Schedule not found"), store, oid)
    ELSE Result(200, Error("Schedule deleted successfully"), Remove(store, id), oid)

\* GET /api/schedules/:id
getSchedule(store, oid, user, id) ==
    IF findOne(store, id, user) = None
    THEN Result(404, Error("Schedule not found"), store, oid)
    ELSE Result(200, store[id], store, oid)

\* GET /api/schedules/:id/conflicts
checkConflicts(store, oid, user, id) ==
    IF findOne(store, id, user) = None
    THEN Result(404, Error("Schedule not found"), store, oid)
    ELSE Result(200, [hasConflicts |-> hasConflicts(store[id].timeBlocks)], store, oid)

(***************************************************************************)
(* projectOccurrences(schedule, dateRange), section 4.1 of the design: the *)
(* occurrences of a schedule on the dates from..to, clipped to the dates   *)
(* from recurring.startDate to recurring.endDate.  The dates of the model  *)
(* lie within a month of 2024-01-01, where a monthly rule allows its start *)
(* date only.                                                              *)
(***************************************************************************)
\* the date is one the frequency and daysOfWeek of the rule allow
Allowed(rule, date) ==
    LET start == rule.startDate[1]
    IN  /\ date >= start
        /\ rule.endDate # None => date <= rule.endDate[1]
        /\ CASE rule.frequency = "daily" -> TRUE
              [] rule.frequency = "weekly" ->
                    IF rule.daysOfWeek = {} THEN (date - start) % 7 = 0
                    ELSE (date % 7) \in rule.daysOfWeek
              [] OTHER -> date = start

\* the exception that applies on a date: the last one written for it, or None
ExceptionFor(exceptions, date) ==
    LET at == {i \in DOMAIN exceptions : exceptions[i].date = date}
    IN  IF at = {} THEN None
        ELSE Some(exceptions[CHOOSE i \in at : \A j \in at : j <= i])

\* the occurrences on the dates date..to, in order of date
RECURSIVE OccurrencesFrom(_, _, _)
OccurrencesFrom(doc, date, to) ==
    IF date > to THEN <<>>
    ELSE LET e == ExceptionFor(doc.exceptions, date)
             here ==
                 IF ~Allowed(doc.recurring, date) THEN <<>>
                 ELSE IF e = None
                 THEN <<[date |-> date,
                         blocks |-> SelectSeq(doc.timeBlocks,
                                              LAMBDA b : b.dayOfWeek = date % 7)]>>
                 ELSE IF e[1].action = "skip" THEN <<>>
                 ELSE <<[date |-> date, blocks |-> e[1].modifiedTimeBlocks]>>
         IN  here \o OccurrencesFrom(doc, date + 1, to)

projectOccurrences(doc, range) ==
    IF doc.recurring.startDate = None THEN <<>>
    ELSE OccurrencesFrom(doc, range.from, range.to)

\* the projection of a schedule of the caller
project(store, oid, user, id, range) ==
    IF findOne(store, id, user) = None
    THEN Result(404, Error("Schedule not found"), store, oid)
    ELSE Result(200, [occurrences |-> projectOccurrences(store[id], range)],
                store, oid)

(***************************************************************************)
(* The requests as actions.  Every request is served as a whole.           *)
(***************************************************************************)
NoRequest ==
    [op |-> "none", user |-> "", id |-> 0, arg |-> None, status |-> 0,
     out |-> Error(""), pre |-> <<>>]

\* a request served as a whole, while ObjectIds up to maxOid remain; deleted
\* records the ids of the schedules deleted so far
ServeWithin(maxOid, op, user, id, arg, r) ==
    /\ r.nextOid <= maxOid + 1
    /\ schedules' = r.schedules
    /\ deleted' = IF op = "delete" /\ r.status = 200
                  THEN deleted \cup {id} ELSE deleted
    /\ nextOid' = r.nextOid
    /\ last' = [op |-> op, user |-> user, id |-> id, arg |-> arg,
                status |-> r.status, out |-> r.out, pre |-> schedules]
    /\ UNCHANGED <<fnBlocks, fnOut, calls, before, versions, sesVars, accVars,
                   taskVars>>

Serve(op, user, id, arg, r) == ServeWithin(MaxOid, op, user, id, arg, r)

Create ==
    \* the new document takes the next ObjectId
    \E user \in Users, id \in {nextOid}, body \in CreateBodies :
        Serve("create", user, id, body,
              createSchedule(schedules, nextOid, user, body))

\* a request names a stored schedule, or (with one body) a schedule that is not stored
Targets(args, arg0) ==
    {<<id, arg>> : id \in DOMAIN schedules, arg \in args} \cup {<<nextOid, arg0>>}

Update ==
    \E user \in Users,
       t \in Targets(UpdateBodies,
                     [NoFields EXCEPT !.name = Some("Finals")]) :
        Serve("update", user, t[1], t[2],
              updateSchedule(schedules, nextOid, user, t[1], t[2]))

AddTimeBlock ==
    \E user \in Users, t \in Targets(AddBlocks, bA) :
        /\ t[1] \in DOMAIN schedules => Len(schedules[t[1]].timeBlocks) < MaxBlocks
        /\ Serve("addTimeBlock", user, t[1], t[2],
                 addBlock(schedules, nextOid, user, t[1], t[2]))

RemoveTimeBlock ==
    \E user \in Users, t \in Targets(RequestBlockIds, nextOid) :
        Serve("removeTimeBlock", user, t[1], t[2],
              removeBlock(schedules, nextOid, user, t[1], t[2]))

Toggle ==
    \E user \in Users, id \in RequestIds :
        Serve("toggle", user, id, None, toggleSchedule(schedules, nextOid, user, id))

Delete ==
    \E user \in Users, id \in RequestIds :
        Serve("delete", user, id, None, deleteSchedule(schedules, nextOid, user, id))

Get ==
    \E user \in Users, id \in RequestIds :
        Serve("get", user, id, None, getSchedule(schedules, nextOid, user, id))

Conflicts ==
    \E user \in Users, id \in RequestIds :
        Serve("conflicts", user, id, None,
              checkConflicts(schedules, nextOid, user, id))

\* the two requests that may be in flight at once
Slots == {1, 2}

Idle == [pc |-> "idle"]

(***************************************************************************)
(* Passwords.  A password value is a text and the salts of the bcrypt      *)
(* hashes applied to it, innermost first: no salt for a plain text, one    *)
(* for its hash, two for the hash of the hash string.                      *)
(***************************************************************************)
Plain(text) == [text |-> text, salts |-> <<>>]

\* bcrypt.hash(value, salt)
Hash(value, salt) == [value EXCEPT !.salts = Append(@, salt)]

\* bcrypt.compare(value, stored): stored is the hash of value under its own salt
Compare(value, stored) ==
    /\ Len(stored.salts) >= 1
    /\ stored = Hash(value, stored.salts[Len(stored.salts)])

\* bcrypt.genSalt(10)
Salts == {1, 2}

\* new passwords of six characters or more, and one that is shorter
LongPasswords == {"secret1", "secret2"}

ShortPasswords == {"abc"}

\* userSchema.pre('save'): a modified password is hashed
preSave(password, modified, salt) ==
    IF modified THEN Hash(password, salt) ELSE password

\* every user registered with the password 'secret1'
InitAcc ==
    /\ account = [u \in Users |-> preSave(Plain("secret1"), TRUE, 1)]
    /\ lastPw = [user |-> "", current |-> None, new |-> Plain(""), status |-> 0]

\* no task
InitTask ==
    /\ tasks = <<>>
    /\ lastTask = [op |-> "none", user |-> "", id |-> 0, arg |-> None,
                   status |-> 0, pre |-> <<>>]

\* no study session, the statistics of a new user, no request, the clock at 0
InitSes ==
    /\ sessions = <<>>
    /\ stats = [u \in Users |-> [totalStudyTime |-> 0, totalSessions |-> 0]]
    /\ sesCalls = [s \in Slots |-> Idle]
    /\ now = 0

Init ==
    /\ schedules = <<>>
    /\ nextOid = 1
    /\ last = NoRequest
    /\ fnBlocks = <<>>
    /\ fnOut = [done |-> FALSE]
    /\ calls = [s \in Slots |-> Idle]
    /\ before = <<>>
    /\ versions = <<>>
    /\ deleted = {}
    /\ InitSes
    /\ InitAcc
    /\ InitTask

Next ==
    \/ Create
    \/ Update
    \/ AddTimeBlock
    \/ RemoveTimeBlock
    \/ Toggle
    \/ Delete
    \/ Get
    \/ Conflicts

Spec == Init /\ [][Next]_vars

(***************************************************************************)
(* The same routes, served with requests that set the description, the     *)
(* recurrence rule and the exceptions of a schedule.                       *)
(***************************************************************************)
DocCreateBodies == {CreateBody("Plan", <<bA, bC>>, Some("mornings"), Some(rcWeekly))}

DocUpdateBodies ==
    {[NoFields EXCEPT !.description = Some("evenings")],
     [NoFields EXCEPT !.recurring = Some(rcEndOnly)],
     [NoFields EXCEPT !.recurring = Some(rcStartOnly)],
     [NoFields EXCEPT !.recurring = Some(rcUntil)],
     [NoFields EXCEPT !.exceptions = Some(<<exSkip>>)],
     [NoFields EXCEPT !.exceptions = Some(<<exSkip, exModify>>)],
     [NoFields EXCEPT !.exceptions = Some(<<exModify, exModifyNone>>)]}

CreateDoc ==
    \E user \in Users, id \in {nextOid}, body \in DocCreateBodies :
        Serve("create", user, id, body,
              createSchedule(schedules, nextOid, user, body))

UpdateDoc ==
    \E user \in Users,
       t \in Targets(DocUpdateBodies, [NoFields EXCEPT !.description = Some("evenings")]) :
        Serve("update", user, t[1], t[2],
              updateSchedule(schedules, nextOid, user, t[1], t[2]))

\* 2023-12-25 to 2024-01-22, five Mondays
ProjectRanges == {[from |-> 0 - 6, to |-> 22]}

Project ==
    \E user \in Users, id \in RequestIds, range \in ProjectRanges :
        Serve("project", user, id, range,
              project(schedules, nextOid, user, id, range))

NextDoc ==
    \/ CreateDoc
    \/ UpdateDoc
    \/ Project
    \/ RemoveTimeBlock
    \/ Toggle

SpecDoc == Init /\ [][NextDoc]_vars

(***************************************************************************)
(* Two requests in flight at once.  A handler runs up to its first await   *)
(* after the lookup (validation, findOne, and for PUT /:id the overlap     *)
(* check) in one step, and sends its write in a later step; the other      *)
(* request may take its steps in between.  calls[s] is the request of slot *)
(* s with the document its findOne returned and that document's version    *)
(* key; before is the store as it was when the first of the two requests   *)
(* arrived; versions holds the stored documents' version keys (__v), which *)
(* only a save that finds another version than it read can observe.        *)
(***************************************************************************)
ConcCreateBodies == {CreateBody("Plan", <<bA>>, None, Some(rcWeekly))}

\* the mutating requests on a schedule
ConcRequests ==
    {[op |-> "toggle", arg |-> None],
     [op |-> "addTimeBlock", arg |-> bB],
     [op |-> "removeTimeBlock", arg |-> 2],
     [op |-> "update", arg |-> [NoFields EXCEPT !.name = Some("Finals")]],
     [op |-> "update", arg |-> [NoFields EXCEPT !.timeBlocks = Some(<<bC>>)]]}

\* a handler up to its write: the status it answers with at once, or 0 and the
\* document it goes on with
readStep(store, user, id, op, arg) ==
    IF \/ op = "addTimeBlock"
          /\ \/ ~WireValidBlock(arg)
             \/ arg.type \notin Types \cup {Absent}
             \/ arg.priority \notin Priorities \cup {Absent}
       \/ op = "update"
          /\ \/ arg.name = Some("")
             \/ /\ arg.timeBlocks # None
                /\ \/ Len(arg.timeBlocks[1]) < 1
                   \/ \E i \in DOMAIN arg.timeBlocks[1] :
                          ~WireValidBlock(arg.timeBlocks[1][i])
    THEN [status |-> 400, doc |-> None]
    ELSE IF findOne(store, id, user) = None
    THEN [status |-> 404, doc |-> None]
    ELSE IF op = "update" /\ arg.timeBlocks # None
            /\ routeConflict(arg.timeBlocks[1]).found
    THEN [status |-> 400, doc |-> None]
    ELSE [status |-> 0, doc |-> Some(store[id])]

\* the version key of a stored document
Version(vers, id) == IF id \in DOMAIN vers THEN vers[id] ELSE 0

\* document.save(): the document in memory is validated, and the paths changed
\* since it was read are written to the stored document: $set for isActive and
\* for a timeBlocks array assigned whole, $push for the blocks pushed.  A $push
\* increments the version key; a $set of the array also requires the version
\* key to be the one read, and fails with a VersionError otherwise.
save(store, vers, oid, read, readV, doc, pushed) ==
    LET id == doc._id
        setsBlocks == pushed = <<>> /\ doc.timeBlocks # read.timeBlocks
    IN  IF \/ ~SchemaValid(doc)
           \/ id \notin DOMAIN store
           \/ setsBlocks /\ Version(vers, id) # readV
        THEN [result |-> Result(500, Error("Server error"), store, oid),
              versions |-> vers]
        ELSE LET cur == store[id]
                 written ==
                     [cur EXCEPT
                        !.isActive = IF doc.isActive # read.isActive
                                     THEN doc.isActive ELSE @,
                        !.timeBlocks = IF pushed # <<>> THEN @ \o pushed
                                       ELSE IF setsBlocks
                                       THEN doc.timeBlocks ELSE @]
             IN  [result |-> Result(200, doc, Put(store, id, written),
                                    oid + Len(pushed)),
                  versions |-> IF pushed # <<>> \/ setsBlocks
                               THEN Put(vers, id, Version(vers, id) + 1)
                               ELSE vers]

\* the write a handler sends for the document it read
writeStep(store, vers, oid, call) ==
    LET read == call.doc[1]
    IN  CASE call.op = "toggle" ->
                save(store, vers, oid, read, call.v, toggleActive(read), <<>>)
          [] call.op = "addTimeBlock" ->
                save(store, vers, oid, read, call.v,
                     addTimeBlock(read, call.arg, oid),
                     <<CastBlock(call.arg, oid)>>)
          [] call.op = "removeTimeBlock" ->
                save(store, vers, oid, read, call.v,
                     removeTimeBlock(read, call.arg), <<>>)
          [] OTHER ->
                \* findByIdAndUpdate: one atomic $set on the stored document,
                \* the version key neither compared nor incremented
                [versions |-> vers,
                 result |->
                    IF call.id \notin DOMAIN store
                    THEN Result(200, Error("null"), store, oid)
                    ELSE LET doc == SetFields(store[call.id], call.arg, oid)
                         IN  IF ~PathsValid(doc)
                             THEN Result(500, Error("Server error"), store, oid)
                             ELSE Result(200, doc, Put(store, call.id, doc),
                                         IF call.arg.timeBlocks = None THEN oid
                                         ELSE oid + Len(call.arg.timeBlocks[1]))]

ConcCreate ==
    \E user \in Users, id \in {nextOid}, body \in ConcCreateBodies :
        /\ \A s \in Slots : calls[s].pc = "idle"
        /\ Serve("create", user, id, body,
                 createSchedule(schedules, nextOid, user, body))

Begin ==
    \E s \in Slots, user \in Users, id \in DOMAIN schedules, req \in ConcRequests :
        LET r == readStep(schedules, user, id, req.op, req.arg)
        IN  /\ calls[s].pc = "idle"
            /\ calls' = [calls EXCEPT ![s] =
                            [pc |-> IF r.status = 0 THEN "read" ELSE "done",
                             op |-> req.op, user |-> user, id |-> id,
                             arg |-> req.arg, doc |-> r.doc,
                             v |-> Version(versions, id), status |-> r.status]]
            /\ before' = IF \A t \in Slots : calls[t].pc = "idle"
                         THEN schedules ELSE before
            /\ UNCHANGED <<schedules, nextOid, last, fnBlocks, fnOut, versions, deleted,
                          sesVars, accVars, taskVars>>

Write ==
    \E s \in Slots :
        LET w == writeStep(schedules, versions, nextOid, calls[s])
            r == w.result
        IN  /\ calls[s].pc = "read"
            /\ r.nextOid <= MaxOid + 1
            /\ schedules' = r.schedules
            /\ nextOid' = r.nextOid
            /\ versions' = w.versions
            /\ calls' = [calls EXCEPT ![s].pc = "done", ![s].status = r.status]
            /\ UNCHANGED <<last, before, fnBlocks, fnOut, deleted, sesVars,
                           accVars, taskVars>>

NextConc ==
    \/ ConcCreate
    \/ Begin
    \/ Write

SpecConc == Init /\ [][NextConc]_vars

(***************************************************************************)
(* Requests that name deleted schedules.  Two schedules fit in the store,  *)
(* and a request names a stored schedule or one that was deleted.          *)
(***************************************************************************)
DelIds == (DOMAIN schedules) \cup deleted

DelCreateBodies == {CreateBody("Plan", <<bA>>, None, Some(rcWeekly))}

DelUpdateBodies ==
    {[NoFields EXCEPT !.name = Some("Finals")],
     [NoFields EXCEPT !.name = Some("")]}

DelAddBlocks == {bB, bBadDay}

DelBlockIds == {2}

ServeDel(op, user, id, arg, r) == ServeWithin(MaxOid + 1, op, user, id, arg, r)

CreateDel ==
    \E user \in Users, id \in {nextOid}, body \in DelCreateBodies :
        ServeDel("create", user, id, body,
                 createSchedule(schedules, nextOid, user, body))

UpdateDel ==
    \E user \in Users, id \in DelIds, body \in DelUpdateBodies :
        ServeDel("update", user, id, body,
                 updateSchedule(schedules, nextOid, user, id, body))

AddTimeBlockDel ==
    \E user \in Users, id \in DelIds, block \in DelAddBlocks :
        /\ id \in DOMAIN schedules => Len(schedules[id].timeBlocks) < MaxBlocks
        /\ ServeDel("addTimeBlock", user, id, block,
                    addBlock(schedules, nextOid, user, id, block))

RemoveTimeBlockDel ==
    \E user \in Users, id \in DelIds, blockId \in DelBlockIds :
        ServeDel("removeTimeBlock", user, id, blockId,
                 removeBlock(schedules, nextOid, user, id, blockId))

ToggleDel ==
    \E user \in Users, id \in DelIds :
        ServeDel("toggle", user, id, None,
                 toggleSchedule(schedules, nextOid, user, id))

DeleteDel ==
    \E user \in Users, id \in DelIds :
        ServeDel("delete", user, id, None,
                 deleteSchedule(schedules, nextOid, user, id))

GetDel ==
    \E user \in Users, id \in DelIds :
        ServeDel("get", user, id, None, getSchedule(schedules, nextOid, user, id))

ConflictsDel ==
    \E user \in Users, id \in DelIds :
        ServeDel("conflicts", user, id, None,
                 checkConflicts(schedules, nextOid, user, id))

NextDel ==
    \/ CreateDel
    \/ UpdateDel
    \/ AddTimeBlockDel
    \/ RemoveTimeBlockDel
    \/ ToggleDel
    \/ DeleteDel
    \/ GetDel
    \/ ConflictsDel

SpecDel == Init /\ [][NextDel]_vars

(***************************************************************************)
(* The study-session routes.  A handler runs from one await to the next in *)
(* one step: the lookup of the session, its save, and for a completion the *)
(* lookup of the user and the save of the user's statistics.  The steps of *)
(* two requests may interleave, and a slot is free again once its request  *)
(* is answered; a request that its lookup rejects changes nothing and is   *)
(* no step.  A session carries its owner, status, duration and endTime (0  *)
(* while unset); its breaks, notes and productivity are left out.          *)
(***************************************************************************)
\* durations a start request carries; 0 fails the wire validation
SesDurations == {0, 25}

SesOps == {"pause", "resume", "complete"}

Open == {"active", "paused"}

\* StudySession.findOne({ userId, status: { $in: ['active', 'paused'] } })
findOpenSession(store, user) ==
    {id \in DOMAIN store : store[id].userId = user /\ store[id].status \in Open}

\* the statuses the lookup of a route accepts
Accepts(op) ==
    CASE op = "pause" -> {"active"}
      [] op = "resume" -> {"paused"}
      [] OTHER -> Open

\* a handler up to the end of its lookup: the status it answers with at once,
\* or 0 and the session it goes on with
sesLookup(store, user, op, id, arg) ==
    IF op = "start"
    THEN IF arg < 1 \/ findOpenSession(store, user) # {}
         THEN [status |-> 400, doc |-> None]
         ELSE [status |-> 0, doc |-> None]
    ELSE IF /\ id \in DOMAIN store
            /\ store[id].userId = user
            /\ store[id].status \in Accepts(op)
         THEN [status |-> 0, doc |-> Some(store[id])]
         ELSE [status |-> 404, doc |-> None]

\* the save of a handler: the new session of a start, or the paths the method
\* changed, written to the stored session
sesSave(store, oid, clock, call) ==
    IF call.op = "start"
    THEN [sessions |-> Put(store, oid,
                           [userId |-> call.user, status |-> "active",
                            duration |-> call.arg, endTime |-> 0]),
          nextOid |-> oid + 1, now |-> clock, status |-> 201]
    ELSE LET cur == store[call.id]
             written ==
                 CASE call.op = "pause" -> [cur EXCEPT !.status = "paused"]
                   [] call.op = "resume" -> [cur EXCEPT !.status = "active"]
                   [] OTHER ->
                         [cur EXCEPT !.status = "completed", !.endTime = clock + 1]
         IN  [sessions |-> Put(store, call.id, written), nextOid |-> oid,
              now |-> IF call.op = "complete" THEN clock + 1 ELSE clock,
              status |-> 200]

\* user.updateStudyStats(studySession.duration) on the user as read
updateStudyStats(read, sessionDuration) ==
    [totalStudyTime |-> read.totalStudyTime + sessionDuration,
     totalSessions |-> read.totalSessions + 1]

SesRequests ==
    {<<"start", nextOid, d>> : d \in SesDurations}
    \cup {<<op, id, 0>> : op \in SesOps, id \in (DOMAIN sessions) \cup {nextOid}}

SesBegin ==
    \E s \in Slots, user \in Users, req \in SesRequests :
        LET r == sesLookup(sessions, user, req[1], req[2], req[3])
        IN  /\ sesCalls[s].pc = "idle"
            /\ r.status = 0
            /\ sesCalls' = [sesCalls EXCEPT ![s] =
                               [pc |-> "read", op |-> req[1], user |-> user,
                                id |-> req[2], arg |-> req[3], doc |-> r.doc,
                                read |-> None]]
            /\ UNCHANGED <<sessions, stats, now, nextOid>>
            /\ UNCHANGED <<schedules, last, fnBlocks, fnOut, calls, before,
                           versions, deleted, accVars, taskVars>>

SesSave ==
    \E s \in Slots :
        LET call == sesCalls[s]
            r == sesSave(sessions, nextOid, now, call)
        IN  /\ call.pc = "read"
            /\ r.nextOid <= MaxOid + 1
            /\ r.now <= MaxTime
            /\ sessions' = r.sessions
            /\ nextOid' = r.nextOid
            /\ now' = r.now
            /\ sesCalls' = [sesCalls EXCEPT ![s] =
                               IF call.op = "complete"
                               THEN [call EXCEPT !.pc = "saved"]
                               ELSE Idle]
            /\ UNCHANGED stats
            /\ UNCHANGED <<schedules, last, fnBlocks, fnOut, calls, before,
                           versions, deleted, accVars, taskVars>>

\* User.findById(req.user.id) of a completion
SesFindUser ==
    \E s \in Slots :
        /\ sesCalls[s].pc = "saved"
        /\ sesCalls' = [sesCalls EXCEPT ![s].pc = "user",
                                        ![s].read = Some(stats[sesCalls[s].user])]
        /\ UNCHANGED <<sessions, stats, now, nextOid>>
        /\ UNCHANGED <<schedules, last, fnBlocks, fnOut, calls, before,
                       versions, deleted, accVars, taskVars>>

\* the save of updateStudyStats
SesSaveUser ==
    \E s \in Slots :
        LET call == sesCalls[s]
        IN  /\ call.pc = "user"
            /\ stats' = [stats EXCEPT ![call.user] =
                            updateStudyStats(call.read[1], call.doc[1].duration)]
            /\ sesCalls' = [sesCalls EXCEPT ![s] = Idle]
            /\ UNCHANGED <<sessions, now, nextOid>>
            /\ UNCHANGED <<schedules, last, fnBlocks, fnOut, calls, before,
                           versions, deleted, accVars, taskVars>>

NextSes ==
    \/ SesBegin
    \/ SesSave
    \/ SesFindUser
    \/ SesSaveUser

SpecSes == Init /\ [][NextSes]_vars

(***************************************************************************)
(* PUT /api/users/password.                                                *)
(***************************************************************************)
\* the stored password after the request, and the status of the answer
changePassword(stored, current, new, salt1, salt2) ==
    IF current = None \/ new.text \in ShortPasswords
    THEN [status |-> 400, password |-> stored]
    ELSE IF ~Compare(current[1], stored)
    THEN [status |-> 400, password |-> stored]
    ELSE \* user.password = await bcrypt.hash(newPassword, salt); user.save()
         [status |-> 200,
          password |-> preSave(Hash(new, salt1), TRUE, salt2)]

\* what a request sends as currentPassword: nothing, a password, or the hash
\* string of a password
CurrentPasswords ==
    {None} \cup {Some(Plain(p)) : p \in LongPasswords}
    \cup {Some(Hash(Plain(p), s)) : p \in LongPasswords, s \in Salts}

NewPasswords == {Plain(p) : p \in LongPasswords \cup ShortPasswords}

ChangePassword ==
    \E user \in Users, current \in CurrentPasswords, new \in NewPasswords,
       salt1 \in Salts, salt2 \in Salts :
        LET r == changePassword(account[user], current, new, salt1, salt2)
        IN  /\ account' = [account EXCEPT ![user] = r.password]
            /\ lastPw' = [user |-> user, current |-> current, new |-> new,
                          status |-> r.status]
            /\ UNCHANGED <<schedules, nextOid, last, fnBlocks, fnOut, calls,
                           before, versions, deleted, sesVars, taskVars>>

NextAcc == ChangePassword

SpecAcc == Init /\ [][NextAcc]_vars

(***************************************************************************)
(* The tasks: POST /api/tasks and PUT /api/tasks/:id/status.  A task       *)
(* carries its owner, status, estimatedDuration and actualDuration (None   *)
(* while the field is absent).                                             *)
(***************************************************************************)
TaskStatuses == {"pending", "in-progress", "completed"}

\* POST / bodies: estimatedDuration 0 fails the wire validation; actualDuration
\* is absent, 0 or 45 (the body is spread into the new task)
TaskBodies ==
    {[estimatedDuration |-> e, actualDuration |-> a] :
        e \in {0, 30}, a \in {None, Some(0), Some(45)}}

\* POST /api/tasks
createTask(store, oid, user, body) ==
    IF body.estimatedDuration < 1
    THEN [status |-> 400, tasks |-> store, nextOid |-> oid]
    ELSE [status |-> 201,
          tasks |-> Put(store, oid,
                        [userId |-> user, status |-> "pending",
                         estimatedDuration |-> body.estimatedDuration,
                         actualDuration |-> body.actualDuration]),
          nextOid |-> oid + 1]

\* !this.actualDuration: the field is absent, or 0
Falsy(duration) == duration = None \/ duration = Some(0)

\* taskSchema.methods.updateStatus
updateStatus(task, newStatus) ==
    [task EXCEPT
       !.status = newStatus,
       !.actualDuration = IF newStatus = "completed" /\ Falsy(@)
                          THEN Some(task.estimatedDuration) ELSE @]

\* PUT /api/tasks/:id/status
updateTaskStatus(store, oid, user, id, status) ==
    IF status \notin TaskStatuses
    THEN [status |-> 400, tasks |-> store, nextOid |-> oid]
    ELSE IF id \notin DOMAIN store \/ store[id].userId # user
    THEN [status |-> 404, tasks |-> store, nextOid |-> oid]
    ELSE [status |-> 200,
          tasks |-> Put(store, id, updateStatus(store[id], status)),
          nextOid |-> oid]

\* a task request served as a whole, while fewer than MaxOid tasks are stored
ServeTask(op, user, id, arg, r) ==
    /\ r.nextOid <= MaxOid
    /\ tasks' = r.tasks
    /\ nextOid' = r.nextOid
    /\ lastTask' = [op |-> op, user |-> user, id |-> id, arg |-> arg,
                    status |-> r.status, pre |-> tasks]
    /\ UNCHANGED <<schedules, last, fnBlocks, fnOut, calls, before, versions,
                   deleted, sesVars, accVars>>

CreateTask ==
    \E user \in Users, id \in {nextOid}, body \in TaskBodies :
        ServeTask("create", user, id, body,
                  createTask(tasks, nextOid, user, body))

UpdateTaskStatus ==
    \E user \in Users, id \in (DOMAIN tasks) \cup {nextOid},
       status \in TaskStatuses \cup {"done"} :
        ServeTask("updateStatus", user, id, status,
                  updateTaskStatus(tasks, nextOid, user, id, status))

NextTask ==
    \/ CreateTask
    \/ UpdateTaskStatus

SpecTask == Init /\ [][NextTask]_vars

(***************************************************************************)
(* The conflict functions on their own: a list of wire-valid blocks is     *)
(* drawn, and the overlap check of the routes and the hasConflicts virtual *)
(* are evaluated on it.                                                    *)
(***************************************************************************)
FnTimes == {T0(9, 0), T(9, 0), T0(10, 0), T0(10, 1)}

FnBlocks ==
    {Blk(1, s, e) : s \in FnTimes, e \in FnTimes} \cup {Blk(2, T0(9, 0), T0(10, 0))}

InitFn ==
    /\ fnBlocks \in SeqsUpTo(FnBlocks, MaxLen)
    /\ fnOut = [done |-> FALSE]
    /\ schedules = <<>>
    /\ nextOid = 1
    /\ last = NoRequest
    /\ calls = [s \in Slots |-> Idle]
    /\ before = <<>>
    /\ versions = <<>>
    /\ deleted = {}
    /\ InitSes
    /\ InitAcc
    /\ InitTask

Evaluate ==
    /\ ~fnOut.done
    /\ fnOut' = [done |-> TRUE,
                 route |-> routeConflict(fnBlocks),
                 hasConflicts |-> hasConflicts(CastBlocks(fnBlocks, 1))]
    /\ UNCHANGED <<fnBlocks, schedules, nextOid, last, calls, before, versions,
                   deleted, sesVars, accVars, taskVars>>

NextFn == Evaluate

SpecFn == InitFn /\ [][NextFn]_vars

(***************************************************************************)
(* Vocabulary of the properties.                                           *)
(***************************************************************************)
\* the time of day a time string denotes, in minutes
Minutes(t) == t.h * 60 + t.m

\* a starts no later than b and ends after b starts
StartsInto(a, b) ==
    /\ a.dayOfWeek = b.dayOfWeek
    /\ Minutes(a.startTime) <= Minutes(b.startTime)
    /\ Minutes(a.endTime) > Minutes(b.startTime)

\* the intervals of a and b overlap
Overlap(a, b) ==
    /\ a.dayOfWeek = b.dayOfWeek
    /\ Minutes(a.startTime) < Minutes(b.endTime)
    /\ Minutes(b.startTime) < Minutes(a.endTime)

IsConflict(r) == r.status = 400 /\ "conflictingBlocks" \in DOMAIN r.out

IsValidationError(r) == r.status = 400 /\ r.out = Error("validation")

BlockIds(doc) == {doc.timeBlocks[i]._id : i \in DOMAIN doc.timeBlocks}

\* the last request named a stored schedule of another user
LastForeign == last.id \in DOMAIN last.pre /\ last.pre[last.id].userId # last.user

\* the last request named a stored schedule of the caller
LastOwned == last.id \in DOMAIN last.pre /\ last.pre[last.id].userId = last.user

WireValidList(l) == Len(l) >= 1 /\ \A i \in DOMAIN l : WireValidBlock(l[i])

(***************************************************************************)
(* C1: createSchedule given a wire-valid list in which one block starts no *)
(* later than another block of the same day and ends after that block      *)
(* starts answers with the conflict error and stores nothing.              *)
(***************************************************************************)
C1_CreateRejectsOverlap ==
    ( /\ last.op = "create"
      /\ last.arg.name # ""
      /\ WireValidList(last.arg.timeBlocks)
      /\ \E i, j \in DOMAIN last.arg.timeBlocks :
            i # j /\ StartsInto(last.arg.timeBlocks[i], last.arg.timeBlocks[j]) )
    => IsConflict(last) /\ schedules = last.pre

(***************************************************************************)
(* C2: addTimeBlock with a block that overlaps a block of the schedule on  *)
(* the same day answers with the conflict error and leaves timeBlocks as   *)
(* they were.                                                              *)
(***************************************************************************)
C2_AddRejectsOverlap ==
    ( /\ last.op = "addTimeBlock"
      /\ LastOwned
      /\ WireValidBlock(last.arg)
      /\ \E i \in DOMAIN last.pre[last.id].timeBlocks :
            Overlap(last.arg, last.pre[last.id].timeBlocks[i]) )
    => /\ IsConflict(last)
       /\ schedules[last.id].timeBlocks = last.pre[last.id].timeBlocks

(***************************************************************************)
(* C3: an update rejected for conflicting timeBlocks leaves the store, and *)
(* so every field of the schedule, exactly as before the request.          *)
(***************************************************************************)
C3_UpdateConflictAtomic ==
    (last.op = "update" /\ IsConflict(last)) => schedules = last.pre

\* a rejected update whose body also carried a new owner, name and isActive
C3_Witness ==
    /\ last.op = "update"
    /\ IsConflict(last)
    /\ last.arg.userId # None /\ last.arg.userId[1] # last.pre[last.id].userId
    /\ last.arg.name # None /\ last.arg.name[1] # last.pre[last.id].name
    /\ last.arg.isActive # None /\ last.arg.isActive[1] # last.pre[last.id].isActive

(***************************************************************************)
(* C6: hasConflicts of a stored schedule is true exactly when two of its   *)
(* stored blocks overlap on the same day.                                  *)
(***************************************************************************)
C6_HasConflictsIffOverlap ==
    \A id \in DOMAIN schedules :
        LET blocks == schedules[id].timeBlocks
        IN  hasConflicts(blocks) <=>
                \E i, j \in DOMAIN blocks : i # j /\ Overlap(blocks[i], blocks[j])

(***************************************************************************)
(* C7: every stored time block starts before it ends.                      *)
(***************************************************************************)
C7_StartBeforeEnd ==
    \A id \in DOMAIN schedules :
        \A i \in DOMAIN schedules[id].timeBlocks :
            Minutes(schedules[id].timeBlocks[i].startTime)
                < Minutes(schedules[id].timeBlocks[i].endTime)

(***************************************************************************)
(* C8: update, addTimeBlock, removeTimeBlock and toggle leave the userId   *)
(* of the schedule they name as it was, so it stays the creator's.         *)
(***************************************************************************)
C8_OwnerFixed ==
    ( /\ last.op \in {"update", "addTimeBlock", "removeTimeBlock", "toggle"}
      /\ last.id \in DOMAIN last.pre
      /\ last.id \in DOMAIN schedules )
    => schedules[last.id].userId = last.pre[last.id].userId

(***************************************************************************)
(* C9 as stated: every request naming a stored schedule of another user    *)
(* is answered 404 and leaves the store as it was.                         *)
(***************************************************************************)
OwnedOps ==
    {"get", "update", "delete", "toggle", "addTimeBlock", "removeTimeBlock",
     "conflicts"}

C9_ForeignNotFound ==
    (last.op \in OwnedOps /\ LastForeign) => last.status = 404 /\ schedules = last.pre

\* the body of the last update or addTimeBlock request fails the wire validation
LastBodyMalformed ==
    \/ /\ last.op = "update"
       /\ \/ last.arg.name = Some("")
          \/ last.arg.timeBlocks # None /\ ~WireValidList(last.arg.timeBlocks[1])
    \/ /\ last.op = "addTimeBlock"
       /\ \/ ~WireValidBlock(last.arg)
          \/ last.arg.type \notin Types \cup {Absent}
          \/ last.arg.priority \notin Priorities \cup {Absent}

(***************************************************************************)
(* C9, amended: a request naming a stored schedule of another user leaves  *)
(* the store as it was and is answered 404, except that an update or       *)
(* addTimeBlock whose body fails the wire validation is answered with the  *)
(* validation error.                                                       *)
(***************************************************************************)
C9_ForeignRejected ==
    (last.op \in OwnedOps /\ LastForeign)
    => /\ schedules = last.pre
       /\ IF LastBodyMalformed THEN IsValidationError(last) ELSE last.status = 404

\* another user's update, carrying a new name, was answered 404
C9_Witness ==
    /\ last.op = "update"
    /\ LastForeign
    /\ last.arg.name = Some("Finals")
    /\ last.status = 404

C10_Witness ==
    /\ last.op = "removeTimeBlock"
    /\ LastOwned
    /\ last.arg \notin BlockIds(last.pre[last.id])
    /\ Len(last.pre[last.id].timeBlocks) >= 1
    /\ last.status = 200

WellFormed(b) == Minutes(b.startTime) < Minutes(b.endTime)

\* the lists that are reorderings of l
Reorderings(l) ==
    {[i \in 1..Len(l) |-> l[p[i]]] :
        p \in {q \in [1..Len(l) -> 1..Len(l)] : \A i, j \in 1..Len(l) : q[i] = q[j] => i = j}}

(***************************************************************************)
(* C4: of two blocks of one day, each starting before it ends, A ending    *)
(* exactly when B starts is no conflict, and A starting no later than B    *)
(* and ending after B starts is a conflict, for the overlap check of the   *)
(* routes and for hasConflicts alike.                                      *)
(***************************************************************************)
C4_TouchingBlocks ==
    (fnOut.done /\ Len(fnBlocks) = 2)
    => \A i, j \in 1..2 :
          LET A == fnBlocks[i]
              B == fnBlocks[j]
          IN  (i # j /\ A.dayOfWeek = B.dayOfWeek /\ WellFormed(A) /\ WellFormed(B))
              => /\ Minutes(A.endTime) = Minutes(B.startTime)
                      => ~fnOut.route.found /\ ~fnOut.hasConflicts
                 /\ StartsInto(A, B)
                      => fnOut.route.found /\ fnOut.hasConflicts

(***************************************************************************)
(* C5: hasConflicts gives the same answer on every reordering of a list of *)
(* blocks that the routes and the schema accept.                           *)
(***************************************************************************)
C5_OrderIndependent ==
    fnOut.done
    => \A l \in Reorderings(fnBlocks) :
          hasConflicts(CastBlocks(l, 1)) = fnOut.hasConflicts

(***************************************************************************)
(* C11: after an accepted update, every field among name, description,     *)
(* timeBlocks, isActive and recurring that the body did not carry, and     *)
(* every sub-field of recurring that the body did not carry, has the value *)
(* it had before the request.                                              *)
(***************************************************************************)
RuleFields == {"isRecurring", "frequency", "startDate", "endDate", "daysOfWeek"}

C11_PartialUpdate ==
    (last.op = "update" /\ last.status = 200)
    => LET old == last.pre[last.id]
           new == schedules[last.id]
           body == last.arg
       IN  /\ body.name = None => new.name = old.name
           /\ body.description = None => new.description = old.description
           /\ body.timeBlocks = None => new.timeBlocks = old.timeBlocks
           /\ body.isActive = None => new.isActive = old.isActive
           /\ body.recurring = None => new.recurring = old.recurring
           /\ body.recurring # None
                => \A f \in RuleFields :
                      body.recurring[1][f] = None => new.recurring[f] = old.recurring[f]

(***************************************************************************)
(* C12: an update that carries timeBlocks L has the outcome it would have  *)
(* with any other blocks stored in the schedule, and once accepted the     *)
(* stored timeBlocks are the blocks of L, in the order of L, and no other. *)
(***************************************************************************)
\* a stored block as the body wrote it
AsSent(b) == [dayOfWeek |-> b.dayOfWeek, startTime |-> b.startTime,
              endTime |-> b.endTime, subject |-> b.subject]

\* other contents the schedule could have held before the request
OtherStored == {<<>>, CastBlocks(<<bB>>, 1), CastBlocks(<<bC, bB>>, 1)}

C12_UpdateChecksListAlone ==
    (last.op = "update" /\ LastOwned /\ last.arg.timeBlocks # None)
    => LET L == last.arg.timeBlocks[1]
           oid == IF last.status = 200 THEN nextOid - Len(L) ELSE nextOid
       IN  /\ \A other \in OtherStored :
                 LET r == updateSchedule(
                              [last.pre EXCEPT ![last.id].timeBlocks = other],
                              oid, last.user, last.id, last.arg)
                 IN  /\ r.status = last.status
                     /\ r.out = last.out
                     /\ last.status = 200
                          => r.schedules[last.id] = schedules[last.id]
           /\ last.status = 200
                => /\ Len(schedules[last.id].timeBlocks) = Len(L)
                   /\ \A i \in DOMAIN L :
                         AsSent(schedules[last.id].timeBlocks[i]) = AsSent(L[i])

\* an accepted update replaced stored blocks by a list that holds none of them
C12_Witness ==
    /\ last.op = "update"
    /\ last.status = 200
    /\ last.arg.timeBlocks = Some(<<bC>>)
    /\ Len(last.pre[last.id].timeBlocks) >= 1
    /\ AsSent(last.pre[last.id].timeBlocks[1]) = AsSent(bA)
    /\ Len(schedules[last.id].timeBlocks) = 1

C14_CrossDayIsolation ==
    fnOut.done
    => /\ (\A i, j \in DOMAIN fnBlocks :
              i # j => fnBlocks[i].dayOfWeek # fnBlocks[j].dayOfWeek)
          => ~fnOut.route.found /\ ~fnOut.hasConflicts
       /\ fnOut.route.found
          => \E d \in 0..6 :
                routeConflict(SelectSeq(fnBlocks, LAMBDA b : b.dayOfWeek = d)).found
       /\ fnOut.hasConflicts
          => \E d \in 0..6 :
                hasConflicts(SelectSeq(CastBlocks(fnBlocks, 1),
                                       LAMBDA b : b.dayOfWeek = d))

\* two blocks with the same time range on different days, and no conflict
C14_Witness ==
    /\ fnOut.done
    /\ Len(fnBlocks) = 2
    /\ fnBlocks[1].dayOfWeek # fnBlocks[2].dayOfWeek
    /\ fnBlocks[1].startTime = fnBlocks[2].startTime
    /\ fnBlocks[1].endTime = fnBlocks[2].endTime
    /\ WellFormed(fnBlocks[1])
    /\ ~fnOut.route.found /\ ~fnOut.hasConflicts

(***************************************************************************)
(* C16: every stored block has dayOfWeek in 0..6, a type among study,      *)
(* break, exercise, other and a priority among low, medium, high; a        *)
(* create, update or addTimeBlock request that carries a block with a      *)
(* value outside these sets is answered with an error and stores nothing.  *)
(***************************************************************************)
InSets(b) ==
    /\ b.dayOfWeek \in 0..6
    /\ b.type \in Types \cup {Absent}
    /\ b.priority \in Priorities \cup {Absent}

\* the blocks the last create, update or addTimeBlock request carried
LastBlocks ==
    IF last.op = "create" THEN last.arg.timeBlocks
    ELSE IF last.op = "addTimeBlock" THEN <<last.arg>>
    ELSE IF last.op = "update" /\ last.arg.timeBlocks # None
         THEN last.arg.timeBlocks[1]
    ELSE <<>>

C16_BlockFieldsInRange ==
    /\ \A id \in DOMAIN schedules :
          \A i \in DOMAIN schedules[id].timeBlocks :
             LET b == schedules[id].timeBlocks[i]
             IN  b.dayOfWeek \in 0..6 /\ b.type \in Types /\ b.priority \in Priorities
    /\ (\E i \in DOMAIN LastBlocks : ~InSets(LastBlocks[i]))
          => last.status >= 400 /\ schedules = last.pre

\* the owner's update with a block of type "nap" was turned down by the schema
C16_Witness ==
    /\ last.op = "update"
    /\ LastOwned
    /\ last.arg.timeBlocks = Some(<<bNap>>)
    /\ last.status = 500
    /\ schedules = last.pre

(***************************************************************************)
(* C17: when create or update is rejected for overlap, the two blocks of   *)
(* conflictingBlocks are blocks of the submitted list, both of the         *)
(* reported day, and the first starts no later than the second and ends    *)
(* after the second starts.                                                *)
(***************************************************************************)
C17_ConflictReport ==
    (last.op \in {"create", "update"} /\ IsConflict(last))
    => LET L == LastBlocks
           first == last.out.conflictingBlocks[1]
           second == last.out.conflictingBlocks[2]
       IN  /\ \E i, j \in DOMAIN L : i # j /\ L[i] = first /\ L[j] = second
           /\ first.dayOfWeek = last.out.day
           /\ second.dayOfWeek = last.out.day
           /\ Minutes(first.endTime) > Minutes(second.startTime)
           /\ Minutes(first.startTime) <= Minutes(second.startTime)

(***************************************************************************)
(* C18: no stored schedule holds two exceptions with the same date.        *)
(***************************************************************************)
C18_OneExceptionPerDate ==
    \A id \in DOMAIN schedules :
        \A i, j \in DOMAIN schedules[id].exceptions :
            i # j => schedules[id].exceptions[i].date # schedules[id].exceptions[j].date

(***************************************************************************)
(* C19: the projection of a schedule over a range holds no occurrence on a *)
(* date that has an exception with action skip, holds an occurrence on     *)
(* every other date of the range that the recurrence allows, and holds no  *)
(* occurrence before recurring.startDate or after recurring.endDate.       *)
(***************************************************************************)
LastProjected ==
    /\ last.op = "project"
    /\ last.status = 200
    /\ schedules[last.id].recurring.startDate # None

OccurrenceDates == {last.out.occurrences[i].date : i \in DOMAIN last.out.occurrences}

C19_ProjectionSkips ==
    LastProjected
    => LET doc == schedules[last.id]
       IN  \A d \in last.arg.from .. last.arg.to :
              LET skipped == \E i \in DOMAIN doc.exceptions :
                                /\ doc.exceptions[i].date = d
                                /\ doc.exceptions[i].action = "skip"
              IN  /\ skipped => d \notin OccurrenceDates
                  /\ (Allowed(doc.recurring, d) /\ ~skipped) => d \in OccurrenceDates
                  /\ d < doc.recurring.startDate[1] => d \notin OccurrenceDates
                  /\ (doc.recurring.endDate # None /\ d > doc.recurring.endDate[1])
                        => d \notin OccurrenceDates

(***************************************************************************)
(* C20: an occurrence the projection emits on a date that has an exception *)
(* with action modify holds exactly the modifiedTimeBlocks of that         *)
(* exception, and none of the stored blocks of the schedule.               *)
(***************************************************************************)
C20_ProjectionModifies ==
    LastProjected
    => LET doc == schedules[last.id]
       IN  \A k \in DOMAIN last.out.occurrences :
              \A i \in DOMAIN doc.exceptions :
                 ( /\ doc.exceptions[i].date = last.out.occurrences[k].date
                   /\ doc.exceptions[i].action = "modify" )
                 => /\ last.out.occurrences[k].blocks
                          = doc.exceptions[i].modifiedTimeBlocks
                    /\ \A n \in DOMAIN last.out.occurrences[k].blocks :
                          \A m \in DOMAIN doc.timeBlocks :
                             last.out.occurrences[k].blocks[n] # doc.timeBlocks[m]

(***************************************************************************)
(* C15: when two mutating requests on one schedule have both been answered *)
(* with 200,                                                               *)
(* whatever the order of their reads and writes, the stored schedule is    *)
(* the one that serving the two requests one after the other, in one of    *)
(* the two orders, would have stored (the _id of a new block aside).       *)
(***************************************************************************)
\* the request of a call served as a whole
served(store, oid, call) ==
    CASE call.op = "toggle" -> toggleSchedule(store, oid, call.user, call.id)
      [] call.op = "addTimeBlock" -> addBlock(store, oid, call.user, call.id, call.arg)
      [] call.op = "removeTimeBlock" ->
            removeBlock(store, oid, call.user, call.id, call.arg)
      [] OTHER -> updateSchedule(store, oid, call.user, call.id, call.arg)

\* the store after call a, then call b, served one after the other
Serial(store, a, b) ==
    LET first == served(store, nextOid, a)
    IN  served(first.schedules, first.nextOid, b).schedules

NoIds(doc) ==
    [doc EXCEPT !.timeBlocks = [i \in DOMAIN @ |-> [@[i] EXCEPT !._id = 0]]]

C15_Serializable ==
    ( /\ \A s \in Slots : calls[s].pc = "done" /\ calls[s].status = 200
      /\ calls[1].id = calls[2].id
      /\ calls[1].user = schedules[calls[1].id].userId
      /\ calls[2].user = schedules[calls[2].id].userId )
    => LET id == calls[1].id
       IN  \/ NoIds(schedules[id]) = NoIds(Serial(before, calls[1], calls[2])[id])
           \/ NoIds(schedules[id]) = NoIds(Serial(before, calls[2], calls[1])[id])

(***************************************************************************)
(* C21: for every block list that passes the routes' wire validation, the  *)
(* overlap check of the create and update routes finds a conflict exactly  *)
(* when the hasConflicts virtual of the same list is true.                 *)
(***************************************************************************)
C21_RouteAgreesWithVirtual ==
    (fnOut.done /\ WireValidList(fnBlocks))
    => (fnOut.route.found <=> fnOut.hasConflicts)

(***************************************************************************)
(* C22: no stored schedule has conflicting blocks: hasConflicts is false   *)
(* for every schedule of the store, in every reachable state.              *)
(***************************************************************************)
C22_NoStoredConflicts ==
    \A id \in DOMAIN schedules : ~hasConflicts(schedules[id].timeBlocks)

(***************************************************************************)
(* C23: every stored schedule has at least one time block.                 *)
(***************************************************************************)
C23_BlocksNonEmpty ==
    \A id \in DOMAIN schedules : Len(schedules[id].timeBlocks) >= 1

(***************************************************************************)
(* C24: a delete by the owner removes that schedule and changes no other;  *)
(* and every later get, update, toggle, add-time-block, remove-time-block, *)
(* conflicts or delete request for a deleted id is answered 404 and        *)
(* changes nothing.                                                        *)
(***************************************************************************)
DeleteFrame ==
    (last'.op = "delete" /\ last'.status = 200)
    => schedules' = Remove(schedules, last'.id)

C24_DeletedNotFound ==
    [][ /\ DeleteFrame
        /\ (last'.op \in OwnedOps /\ last'.id \in deleted)
           => last'.status = 404 /\ schedules' = schedules ]_vars

(***************************************************************************)
(* C24, amended: as C24, except that an update or add-time-block request   *)
(* for a deleted id whose body fails the wire validation is answered with  *)
(* the validation error.                                                   *)
(***************************************************************************)
C24_DeletedStaysGone ==
    [][ /\ DeleteFrame
        /\ (last'.op \in OwnedOps /\ last'.id \in deleted)
           => /\ schedules' = schedules
              /\ IF LastBodyMalformed' THEN IsValidationError(last')
                 ELSE last'.status = 404 ]_vars

\* the second schedule was deleted while the first stayed stored, and a later
\* toggle of the deleted one by its owner was answered 404
C24_Witness ==
    /\ last.op = "toggle"
    /\ last.id \in deleted
    /\ last.id > 1
    /\ 1 \in DOMAIN schedules
    /\ last.status = 404

(***************************************************************************)
(* C25: when two toggle requests on one schedule have both been answered   *)
(* with 200, whatever the order of their findOne and save steps, isActive  *)
(* of the schedule is what it was before the two requests.                 *)
(***************************************************************************)
C25_TwoTogglesRestore ==
    ( /\ \A s \in Slots :
            calls[s].pc = "done" /\ calls[s].op = "toggle" /\ calls[s].status = 200
      /\ calls[1].id = calls[2].id )
    => schedules[calls[1].id].isActive = before[calls[1].id].isActive

(***************************************************************************)
(* C26: each user has at most one study session whose status is active or  *)
(* paused, in every reachable state.                                       *)
(***************************************************************************)
C26_OneOpenSession ==
    \A u \in Users : Cardinality(findOpenSession(sessions, u)) <= 1

(***************************************************************************)
(* C27: the status of a study session changes only from active to paused,  *)
(* from paused to active, and from active or paused to completed; and the  *)
(* status and endTime of a completed session never change.                 *)
(***************************************************************************)
StatusSteps ==
    {<<"active", "paused">>, <<"paused", "active">>,
     <<"active", "completed">>, <<"paused", "completed">>}

C27_StatusTransitions ==
    [][\A id \in DOMAIN sessions :
          /\ \/ sessions'[id].status = sessions[id].status
             \/ <<sessions[id].status, sessions'[id].status>> \in StatusSteps
          /\ sessions[id].status = "completed"
             => sessions'[id].endTime = sessions[id].endTime]_vars

(***************************************************************************)
(* C28: whenever no study-session request is in flight, totalSessions of   *)
(* every user is the number of that user's completed sessions, and         *)
(* totalStudyTime is the sum of their durations.                           *)
(***************************************************************************)
CompletedOf(u) ==
    {id \in DOMAIN sessions :
        sessions[id].userId = u /\ sessions[id].status = "completed"}

RECURSIVE SumDurations(_)
SumDurations(ids) ==
    IF ids = {} THEN 0
    ELSE LET id == CHOOSE i \in ids : TRUE
         IN  sessions[id].duration + SumDurations(ids \ {id})

C28_StatsMatchSessions ==
    (\A s \in Slots : sesCalls[s].pc = "idle")
    => \A u \in Users :
          /\ stats[u].totalSessions = Cardinality(CompletedOf(u))
          /\ stats[u].totalStudyTime = SumDurations(CompletedOf(u))

(***************************************************************************)
(* C29: after a change-password request answered 200, the stored password  *)
(* is the hash of the new password applied once, and comparing the new     *)
(* password against the stored value succeeds.                             *)
(***************************************************************************)
C29_NewPasswordHashedOnce ==
    lastPw.status = 200
    => /\ Len(account[lastPw.user].salts) = Len(lastPw.new.salts) + 1
       /\ Compare(lastPw.new, account[lastPw.user])

(***************************************************************************)
(* C30: a status update answered 200 sets actualDuration to                *)
(* estimatedDuration when the new status is completed and actualDuration   *)
(* was unset, and leaves actualDuration as it was in every other case.     *)
(***************************************************************************)
C30_ActualDurationKept ==
    (lastTask.op = "updateStatus" /\ lastTask.status = 200)
    => LET old == lastTask.pre[lastTask.id]
           new == tasks[lastTask.id]
       IN  new.actualDuration =
              IF lastTask.arg = "completed" /\ old.actualDuration = None
              THEN Some(old.estimatedDuration)
              ELSE old.actualDuration

====
